---- MODULE Spec2Model ----
(***************************************************************************)
(* Model of GoogleToken (src/src/index.ts): the token lifecycle of a      *)
(* JWT-bearer OAuth client.  The manager object is the record `this`;     *)
(* every asynchronous call on it (getToken, revokeToken) is a slot of     *)
(* `calls` whose pc is the await it is suspended at.  The file system,    *)
(* the token endpoint and the revoke endpoint are the environment: their  *)
(* answers are the inputs of the actions that resume a suspended call.    *)
(* getPem is the module variable of line 55: whether google-p12-pem has   *)
(* been loaded in this process, by a getToken() of the manager or by a    *)
(* direct call of getCredentials; direct is the await such a direct call  *)
(* is suspended at: "import" (line 147) or none ("idle").                 *)
(*                                                                         *)
(* An optional JavaScript value is a sequence: <<>> is null/undefined and  *)
(* <<v>> is the value v.                                                   *)
(*                                                                         *)
(* History kept for the properties, read by no action's guard: orig, the  *)
(* options the constructor was given; revoked, true from a successful     *)
(* revoke until the next getToken() call or stored token; and in a call's *)
(* record nPost, nRead, nGet (the requests it issued), cached (it settled *)
(* from the cache) and afterRevoke (revoked, when it was called).         *)
(***************************************************************************)
EXTENDS Integers, Sequences, FiniteSets, TLC

VARIABLES this, now, calls, orig, revoked, getPem, direct

vars == <<this, now, calls, orig, revoked, getPem, direct>>

\* ---------------------------------------------------------------- bounds
MaxNow == 1500
TickMs == 500
MaxExpiresIn == 1

\* ------------------------------------------------------ program constants
GOOGLE_TOKEN_URL == "https://www.googleapis.com/oauth2/v4/token"
GOOGLE_REVOKE_TOKEN_URL == "https://accounts.google.com/o/oauth2/revoke?token="

\* --------------------------------------------------------- optional values
Null == <<>>
Some(v) == <<v>>

\* JavaScript truthiness of an optional string: null, undefined and '' are falsy
Truthy(x) == x # Null /\ x[1] # ""

\* JavaScript truthiness of an optional number: null, undefined and 0 are falsy
TruthyNum(x) == x # Null /\ x[1] # 0

\* a || b
OrElse(a, b) == IF Truthy(a) THEN a ELSE b

\* ------------------------------------------------------------ environment
\* the invocations that may be in flight at once
Calls == {1, 2}

AccessTokens == {Null, Some(""), Some("t1"), Some("t2")}
ExpiresIns == {Null} \cup {Some(n) : n \in 0..MaxExpiresIn}

\* TokenData as the token endpoint returns it (the fields the class reads)
TokenData == [access_token : AccessTokens, expires_in : ExpiresIns]

\* A rejected axios call: no response at all, or a response with a body
PostErrors ==
    [response : {FALSE}, error : {Null}, error_description : {Null}]
    \cup [response : {TRUE},
          error : {Null, Some("invalid_grant")},
          error_description : {Null, Some("bad")}]

\* a rejected GET to the revoke endpoint: its body is not looked at
RevokeErrors == {e \in PostErrors : e.error = Null /\ e.error_description = Null}

KeyFiles == {"key.json", "key.pem", "key.p12", "key.xyz"}

\* JSON.stringify of a key document with these two optional members
stringify(private_key, client_email) ==
    "{"
    \o (IF private_key = Null THEN ""
        ELSE "\"private_key\":\"" \o private_key[1] \o "\"")
    \o (IF private_key # Null /\ client_email # Null THEN "," ELSE "")
    \o (IF client_email = Null THEN ""
        ELSE "\"client_email\":\"" \o client_email[1] \o "\"")
    \o "}"

\* a read that fails
NoFile ==
    [ok |-> FALSE, json |-> FALSE, text |-> "",
     private_key |-> Null, client_email |-> Null]

\* a file whose text is a JSON document with these members
JsonFile(private_key, client_email) ==
    [ok |-> TRUE, json |-> TRUE, text |-> stringify(private_key, client_email),
     private_key |-> private_key, client_email |-> client_email]

\* a file whose text is no JSON document: a PEM key, or an empty file
TextFile(text) ==
    [ok |-> TRUE, json |-> FALSE, text |-> text,
     private_key |-> Null, client_email |-> Null]

\* what readFile / getPem deliver: the read fails, or the file's text
FileContents ==
    {NoFile}
    \cup {JsonFile(k, e) : k \in {Null, Some("PK1"), Some("BADKEY")},
                           e \in {Null, Some("e1")}}
    \cup {TextFile(t) : t \in {"", "PK1", "BADKEY"}}

\* the contents considered for a key file: any for a *.json, a text or a
\* failure for a *.pem or *.p12; a file of another type is never read
filesOf(keyFile) ==
    IF keyFile \in {Some("key.json")} THEN FileContents
    ELSE IF keyFile \in {Some("key.pem"), Some("key.p12")}
    THEN {f \in FileContents : ~f.json}
    ELSE {NoFile}

\* jws.sign throws on malformed key material
SignOk(key) == Truthy(key) /\ key # Some("BADKEY")


\* ------------------------------------------------------------ the manager
\* the field initialisers of the class, before the constructor body runs
Fields ==
    [token |-> Null, expiresAt |-> Null, key |-> Null, keyFile |-> Null,
     iss |-> Null, sub |-> Null, scope |-> Null, rawToken |-> Null,
     tokenExpires |-> Null, additionalClaims |-> Null]

\* Array.prototype.join
RECURSIVE join(_, _)
join(arr, sep) ==
    IF Len(arr) = 0 THEN ""
    ELSE IF Len(arr) = 1 THEN arr[1]
    ELSE arr[1] \o sep \o join(Tail(arr), sep)

\* a scope option: undefined, a string, or an array of strings
NoScope == [kind |-> "undefined", str |-> "", arr |-> <<>>]
ScopeString(s) == [kind |-> "string", str |-> s, arr |-> <<>>]
ScopeArray(a) == [kind |-> "array", str |-> "", arr |-> a]

\* the scope option revokeToken passes on: this.scope, a string or undefined
ScopeOf(s) == IF s = Null THEN NoScope ELSE ScopeString(s[1])

NoOptions ==
    [keyFile |-> Null, key |-> Null, email |-> Null, iss |-> Null,
     sub |-> Null, scope |-> NoScope, additionalClaims |-> Null]

\* configure without line 233: the token state survives
configure_keepsToken(self, options) ==
    [self EXCEPT
        !.keyFile = options.keyFile,
        !.key = options.key,
        !.iss = OrElse(options.email, options.iss),
        !.sub = options.sub,
        !.additionalClaims = options.additionalClaims,
        !.scope = IF options.scope.kind = "array"
                  THEN Some(join(options.scope.arr, " "))
                  ELSE IF options.scope.kind = "string"
                  THEN Some(options.scope.str)
                  ELSE Null]

configure(self, options) ==
    [self EXCEPT
        !.keyFile = options.keyFile,
        !.key = options.key,
        !.token = Null,
        !.expiresAt = Null,
        !.rawToken = Null,
        !.iss = OrElse(options.email, options.iss),
        !.sub = options.sub,
        !.additionalClaims = options.additionalClaims,
        !.scope = IF options.scope.kind = "array"
                  THEN Some(join(options.scope.arr, " "))
                  ELSE IF options.scope.kind = "string"
                  THEN Some(options.scope.str)
                  ELSE Null]

\* hasExpired taking a token without expiresAt as never expiring
hasExpired_neverExpires(self, t) ==
    IF Truthy(self.token)
    THEN TruthyNum(self.expiresAt) /\ t >= self.expiresAt[1]
    ELSE TRUE

\* hasExpired with the comparison of line 87 turned round
hasExpired_inverted(self, t) ==
    IF Truthy(self.token) /\ TruthyNum(self.expiresAt)
    THEN t <= self.expiresAt[1]
    ELSE TRUE

\* hasExpired with > for >= in line 87: not expired at expiresAt itself
hasExpired_late(self, t) ==
    IF Truthy(self.token) /\ TruthyNum(self.expiresAt)
    THEN t > self.expiresAt[1]
    ELSE TRUE

hasExpired(self, t) ==
    IF Truthy(self.token) /\ TruthyNum(self.expiresAt)
    THEN t >= self.expiresAt[1]
    ELSE TRUE

\* getTokenAsync without the check of line 165
noKeyMaterial_unchecked(self) == FALSE

\* the guard of getTokenAsync's first throw (line 165)
noKeyMaterial(self) == ~Truthy(self.key) /\ ~Truthy(self.keyFile)

\* line 202 as a comparison with null: an empty token is sent to be revoked
noTokenToRevoke_strict(self) == self.token = Null

\* the guard of revokeTokenAsync's throw (line 202)
noTokenToRevoke(self) == ~Truthy(self.token)

\* line 172 with its operands swapped: a configured issuer wins
adoptCredentials_keepsIssuer(self, creds) ==
    [self EXCEPT !.key = creds.privateKey,
                 !.iss = OrElse(self.iss, creds.clientEmail)]

\* the credentials getTokenAsync adopts from a resolved key file (lines 171-172)
adoptCredentials(self, creds) ==
    [self EXCEPT !.key = creds.privateKey,
                 !.iss = OrElse(creds.clientEmail, self.iss)]

\* ensureEmail returns normally (lines 180-184)
ensureEmail(self) == Truthy(self.iss)

\* mime.getType on the key file's extension
MimeType(keyFile) ==
    CASE keyFile = "key.json" -> "application/json"
      [] keyFile = "key.pem" -> "application/x-x509-ca-cert"
      [] keyFile = "key.p12" -> "application/x-pkcs12"
      [] OTHER -> "unknown"

\* ---------------------------------------------------------------- errors
Err(message, code) == [message |-> message, code |-> code, axios |-> FALSE]
AxiosError(message) == [message |-> message, code |-> Null, axios |-> TRUE]
NoError == [message |-> "", code |-> Null, axios |-> FALSE]

NoKeyError == Err("No key or keyFile set.", Null)
EmailRequiredError == Err("email is required.", Some("MISSING_CREDENTIALS"))
MissingCredentialsError ==
    Err("private_key and client_email are required.", Some("MISSING_CREDENTIALS"))
UnknownCertificateTypeError ==
    Err("Unknown certificate type. Type is determined based on file extension. "
           \o "Current supported extensions are *.json, *.pem, and *.p12.",
        Some("UNKNOWN_CERTIFICATE_TYPE"))
ReadFileError == Err("ENOENT", Some("ENOENT"))
JsonParseError == Err("JSON.parse failed", Null)
ImportError == Err("import failed", Some("MODULE_NOT_FOUND"))
SignError == Err("jws.sign failed", Null)
NoTokenError == Err("No token to revoke.", Null)

\* what getCredentials settles with: [ok, privateKey, clientEmail, error]
Resolved(privateKey, clientEmail) ==
    [ok |-> TRUE, privateKey |-> privateKey, clientEmail |-> clientEmail,
     error |-> NoError]
Rejected(error) ==
    [ok |-> FALSE, privateKey |-> Null, clientEmail |-> Null, error |-> error]

getCredentials(keyFile, file) ==
    CASE MimeType(keyFile) = "application/json" ->
            IF ~file.ok THEN Rejected(ReadFileError)
            ELSE IF ~file.json THEN Rejected(JsonParseError)
            ELSE IF ~Truthy(file.private_key) \/ ~Truthy(file.client_email)
            THEN Rejected(MissingCredentialsError)
            ELSE Resolved(file.private_key, file.client_email)
      [] MimeType(keyFile) \in {"application/x-x509-ca-cert", "application/x-pkcs12"} ->
            IF ~file.ok THEN Rejected(ReadFileError)
            ELSE Resolved(Some(file.text), Null)
      [] OTHER -> Rejected(UnknownCertificateTypeError)

\* ------------------------------------------------------------------ calls
\* One asynchronous invocation.  pc is the await the call is suspended at:
\*   "import" (line 147, inside getCredentials, before the read is issued),
\*   "getCredentials" (line 170, the read of lines 124, 137 or 149 issued or
\*   the type unknown), "post" (line 271), "get" (line 213);
\* "done" is a settled promise, whose value or error is in res.
\* sent is the token a revoke put in its URL; lost records that the revoke,
\* when it succeeded, cleared a token other than that one.  payload is the
\* JWT payload of the request in flight.  style tells whether the caller
\* passed a callback; a call with a callback goes from its settled promise
\* ("settled") through the then and catch handlers of lines 104-108 and 195,
\* "thrown" being a callback that threw inside the then handler, and cb lists
\* the invocations of the callback, each [err, value].
\* the claims requestToken computes itself (lines 252-259)
standardClaims(self, iat) ==
    [iss |-> self.iss, scope |-> self.scope, aud |-> Some(GOOGLE_TOKEN_URL),
     exp |-> Some(iat + 3600), iat |-> Some(iat), sub |-> self.sub]

\* this.additionalClaims || {} (line 250), each value as a present value
additionalClaimsOf(self) ==
    IF self.additionalClaims = Null
    THEN <<>>
    ELSE [k \in DOMAIN self.additionalClaims[1] |->
             Some(self.additionalClaims[1][k])]

\* Object.assign(target, source): the source's keys win
assign(target, source) ==
    [k \in DOMAIN target \cup DOMAIN source |->
        IF k \in DOMAIN source THEN source[k] ELSE target[k]]

\* lines 251-260 with the arguments swapped: the computed claims win
payload_standardWins(self, iat) ==
    assign(additionalClaimsOf(self), standardClaims(self, iat))

\* the JWT payload (lines 251-260)
payload(self, iat) ==
    assign(standardClaims(self, iat), additionalClaimsOf(self))

\* no request in flight: no payload
NoPayload ==
    [k \in {"iss", "scope", "aud", "exp", "iat", "sub"} |-> Null]

NoResult == [kind |-> "none", value |-> Null, error |-> NoError]
Resolve(value) == [kind |-> "ok", value |-> value, error |-> NoError]
Reject(error) == [kind |-> "err", value |-> Null, error |-> error]

IdleCall ==
    [op |-> "none", pc |-> "idle", iat |-> 0, sent |-> Null, res |-> NoResult,
     nPost |-> 0, nRead |-> 0, nGet |-> 0, cached |-> FALSE, afterRevoke |-> FALSE,
     lost |-> FALSE, payload |-> NoPayload, style |-> "promise", cb |-> <<>>]

Free(c) == calls[c].pc \in {"idle", "done"}

\* a settled call keeps its result and its I/O counts; its locals are dead
Settle(cr, result) ==
    [cr EXCEPT !.pc = IF cr.style = "callback" THEN "settled" ELSE "done",
               !.res = result, !.iat = 0, !.sent = Null,
               !.payload = NoPayload]

\* lines 282-285 merging with the state held: no expires_in keeps the old expiry
storeToken_merges(self, data, iat) ==
    [self EXCEPT
        !.rawToken = Some(data),
        !.token = data.access_token,
        !.expiresAt = IF data.expires_in = Null
                      THEN @
                      ELSE Some((iat + data.expires_in[1]) * 1000)]

\* the token state a successful exchange stores (lines 279-287)
storeToken(self, data, iat) ==
    [self EXCEPT
        !.rawToken = Some(data),
        !.token = data.access_token,
        !.expiresAt = IF data.expires_in = Null
                      THEN Null
                      ELSE Some((iat + data.expires_in[1]) * 1000)]

\* lines 289-290 clearing only the dead field: a failure keeps the token held
clearToken_keepsToken(self) ==
    [self EXCEPT !.tokenExpires = Null]

\* the token state a failed exchange leaves (lines 289-290)
clearToken(self) ==
    [self EXCEPT !.token = Null, !.tokenExpires = Null]

\* the error axios rejects with, as the caller sees it when it is passed on
exchangeTransportError(e) ==
    AxiosError(IF e.response THEN "Request failed" ELSE "Network Error")

\* lines 291-298 without the description: the message is the error field alone
exchangeError_noDescription(e) ==
    IF e.response /\ Truthy(e.error)
    THEN Err(e.error[1], Null)
    ELSE exchangeTransportError(e)

\* the error a failed exchange throws (lines 291-298)
exchangeError(e) ==
    IF e.response /\ Truthy(e.error)
    THEN Err(e.error[1] \o (IF Truthy(e.error_description)
                            THEN ": " \o e.error_description[1]
                            ELSE ""), Null)
    ELSE exchangeTransportError(e)

\* lines 214-221 without the key: the key is dropped by a revoke
revokeOptions_dropsKey(self) ==
    [keyFile |-> self.keyFile, key |-> Null, email |-> self.iss,
     iss |-> Null, sub |-> self.sub, scope |-> ScopeOf(self.scope),
     additionalClaims |-> self.additionalClaims]

\* the options revokeToken hands to configure (lines 214-221)
revokeOptions(self) ==
    [keyFile |-> self.keyFile, key |-> self.key, email |-> self.iss,
     iss |-> Null, sub |-> self.sub, scope |-> ScopeOf(self.scope),
     additionalClaims |-> self.additionalClaims]

\* requestToken up to its await (lines 248-278): sign, then POST
requestToken(c, self, cr) ==
    /\ this' = self
    /\ IF SignOk(self.key)
       THEN calls' = [calls EXCEPT ![c] =
                [cr EXCEPT !.pc = "post", !.iat = now \div 1000,
                           !.payload = payload(self, now \div 1000),
                           !.nPost = @ + 1]]
       ELSE calls' = [calls EXCEPT ![c] = Settle(cr, Reject(SignError))]

\* ---------------------------------------------------------------- actions
\* the clock advances
Tick ==
    /\ now + TickMs <= MaxNow
    /\ now' = now + TickMs
    /\ UNCHANGED <<this, calls, orig, revoked, getPem, direct>>

\* a *.p12 key file and google-p12-pem not loaded yet (lines 140, 146)
mustImport(keyFile) ==
    MimeType(keyFile) = "application/x-pkcs12" /\ ~getPem

\* getToken is called, with a callback or without: getTokenAsync up to its
\* first await (lines 101-112, 160-177)
getToken(c, style) ==
    /\ Free(c)
    /\ LET cr == [IdleCall EXCEPT !.op = "getToken", !.afterRevoke = revoked,
                                  !.style = style] IN
       IF ~hasExpired(this, now)
       THEN /\ calls' = [calls EXCEPT ![c] =
                   Settle([cr EXCEPT !.cached = TRUE], Resolve(this.token))]
            /\ UNCHANGED this
       ELSE IF noKeyMaterial(this)
       THEN /\ calls' = [calls EXCEPT ![c] = Settle(cr, Reject(NoKeyError))]
            /\ UNCHANGED this
       ELSE IF ~Truthy(this.key) /\ Truthy(this.keyFile)
       THEN /\ calls' = [calls EXCEPT ![c] =
                   IF mustImport(this.keyFile[1])
                   THEN [cr EXCEPT !.pc = "import"]
                   ELSE [cr EXCEPT !.pc = "getCredentials",
                              !.nRead = IF MimeType(this.keyFile[1]) = "unknown"
                                        THEN 0 ELSE 1]]
            /\ UNCHANGED this
       ELSE requestToken(c, this, cr)
    /\ revoked' = FALSE
    /\ UNCHANGED <<now, orig, getPem, direct>>

\* getToken() without a callback: return this.getTokenAsync() (line 111)
getTokenAsync(c) == getToken(c, "promise")

\* getToken(callback) (lines 103-109)
getTokenCallback(c) == getToken(c, "callback")

\* google-p12-pem is loaded: getPem is set and the read is issued (lines
\* 147-149)
importReturn(c) ==
    /\ calls[c].pc = "import"
    /\ getPem' = TRUE
    /\ calls' = [calls EXCEPT ![c] =
            [@ EXCEPT !.pc = "getCredentials", !.nRead = @ + 1]]
    /\ UNCHANGED <<this, now, orig, revoked, direct>>

\* loading google-p12-pem fails: getCredentials, and with it getTokenAsync,
\* rejects with the loader's error; no read is issued (line 147)
importCatch(c) ==
    /\ calls[c].pc = "import"
    /\ calls' = [calls EXCEPT ![c] = Settle(@, Reject(ImportError))]
    /\ UNCHANGED <<this, now, orig, revoked, getPem, direct>>

\* the public getCredentials is called directly (line 119): on a *.p12 file
\* with google-p12-pem not loaded it issues the import and yields at line
\* 147; otherwise it issues its read, or throws for an unknown type, and
\* neither the call nor its outcome touches the manager or getPem
getCredentialsDirect(keyFile) ==
    /\ direct = "idle"
    /\ direct' = IF mustImport(keyFile) THEN "import" ELSE "idle"
    /\ UNCHANGED <<this, now, calls, orig, revoked, getPem>>

\* the import of a direct call resolves: getPem is assigned, also when
\* another call has assigned it meanwhile, and the read is issued (lines
\* 147-149); the manager is not touched
getCredentialsImportReturn ==
    /\ direct = "import"
    /\ getPem' = TRUE
    /\ direct' = "idle"
    /\ UNCHANGED <<this, now, calls, orig, revoked>>

\* the import of a direct call fails: the call rejects (line 147)
getCredentialsImportCatch ==
    /\ direct = "import"
    /\ direct' = "idle"
    /\ UNCHANGED <<this, now, calls, orig, revoked, getPem>>

\* getCredentials settles and getTokenAsync resumes (lines 170-177)
getCredentialsReturn(c, file) ==
    /\ calls[c].pc = "getCredentials"
    /\ LET creds == getCredentials(this.keyFile[1], file) IN
       IF ~creds.ok
       THEN /\ calls' = [calls EXCEPT ![c] = Settle(@, Reject(creds.error))]
            /\ UNCHANGED this
       ELSE LET self == adoptCredentials(this, creds) IN
            IF ~Truthy(creds.clientEmail) /\ ~ensureEmail(self)
            THEN /\ this' = self
                 /\ calls' = [calls EXCEPT ![c] =
                                 Settle(@, Reject(EmailRequiredError))]
            ELSE requestToken(c, self, calls[c])
    /\ UNCHANGED <<now, orig, revoked, getPem, direct>>

\* the token endpoint answers 2xx (lines 279-287)
postThen(c, data) ==
    /\ calls[c].pc = "post"
    /\ LET self == storeToken(this, data, calls[c].iat) IN
       /\ this' = self
       /\ calls' = [calls EXCEPT ![c] = Settle(@, Resolve(self.token))]
    /\ revoked' = FALSE
    /\ UNCHANGED <<now, orig, getPem, direct>>

\* lines 288-299 with one retry: the first failure issues the POST again
postCatch_retries(c, e) ==
    /\ calls[c].pc = "post"
    /\ this' = clearToken(this)
    /\ calls' = [calls EXCEPT ![c] =
            IF @.nPost = 1
            THEN [@ EXCEPT !.nPost = 2]
            ELSE Settle(@, Reject(exchangeError(e)))]
    /\ UNCHANGED <<now, orig, revoked, getPem, direct>>

\* the POST fails: transport error or non-2xx (lines 288-299)
postCatch(c, e) ==
    /\ calls[c].pc = "post"
    /\ this' = clearToken(this)
    /\ calls' = [calls EXCEPT ![c] = Settle(@, Reject(exchangeError(e)))]
    /\ UNCHANGED <<now, orig, revoked, getPem, direct>>

\* revokeToken is called, with a callback or without: revokeTokenAsync up to
\* its await (lines 193-199, 201-213)
revokeToken(c, style) ==
    /\ Free(c)
    /\ LET cr == [IdleCall EXCEPT !.op = "revokeToken", !.style = style] IN
       IF noTokenToRevoke(this)
       THEN calls' = [calls EXCEPT ![c] = Settle(cr, Reject(NoTokenError))]
       ELSE calls' = [calls EXCEPT ![c] =
               [cr EXCEPT !.pc = "get", !.sent = this.token, !.nGet = 1]]
    /\ UNCHANGED <<this, now, orig, revoked, getPem, direct>>

\* revokeToken() without a callback: return this.revokeTokenAsync() (line 198)
revokeTokenAsync(c) == revokeToken(c, "promise")

\* revokeToken(callback) (lines 194-197)
revokeTokenCallback(c) == revokeToken(c, "callback")

\* lines 213-222 guarded: configure runs only if the token sent is still held
revokeThen_onlyOwn(c) ==
    /\ calls[c].pc = "get"
    /\ this' = IF this.token = calls[c].sent
               THEN configure(this, revokeOptions(this))
               ELSE this
    /\ calls' = [calls EXCEPT ![c] = Settle(@, Resolve(Null))]
    /\ revoked' = TRUE
    /\ UNCHANGED <<now, orig, getPem, direct>>

\* the revoke endpoint answers 2xx (lines 213-222)
revokeThen(c) ==
    /\ calls[c].pc = "get"
    /\ this' = configure(this, revokeOptions(this))
    /\ calls' = [calls EXCEPT ![c] =
            Settle([@ EXCEPT !.lost = Truthy(this.token)
                                         /\ this.token # calls[c].sent],
                   Resolve(Null))]
    /\ revoked' = TRUE
    /\ UNCHANGED <<now, orig, getPem, direct>>

\* a failed revoke that resets the manager all the same
revokeCatch_resets(c, e) ==
    /\ calls[c].pc = "get"
    /\ this' = configure(this, revokeOptions(this))
    /\ calls' = [calls EXCEPT ![c] = Settle(@, Reject(exchangeTransportError(e)))]
    /\ UNCHANGED <<now, orig, revoked, getPem, direct>>

\* the GET to the revoke endpoint fails: the promise rejects with axios' error
revokeCatch(c, e) ==
    /\ calls[c].pc = "get"
    /\ calls' = [calls EXCEPT ![c] = Settle(@, Reject(exchangeTransportError(e)))]
    /\ UNCHANGED <<this, now, orig, revoked, getPem, direct>>

\* what a callback that throws throws
ThrownError == Err("thrown by the callback", Null)

\* one invocation of the callback: callback(err) or callback(null, value)
Invocation(err, value) == [err |-> err, value |-> value]

\* a then handler that passes the error where the result belongs
callbackThen_passesError(c, throws) ==
    /\ calls[c].pc = "settled"
    /\ calls[c].res.kind = "ok"
    /\ calls' = [calls EXCEPT ![c] =
            [@ EXCEPT !.cb = Append(@, Invocation(Some(NoError), Null)),
                      !.pc = IF throws THEN "thrown" ELSE "done"]]
    /\ UNCHANGED <<this, now, orig, revoked, getPem, direct>>

\* the promise resolved and the then handler runs: callback(null, t) for
\* getToken (lines 105-107), callback() for revokeToken (line 195); an
\* exception of the callback rejects the promise the catch handler is on
callbackThen(c, throws) ==
    /\ calls[c].pc = "settled"
    /\ calls[c].res.kind = "ok"
    /\ calls' = [calls EXCEPT ![c] =
            [@ EXCEPT !.cb = Append(@, Invocation(Null, calls[c].res.value)),
                      !.pc = IF throws THEN "thrown" ELSE "done"]]
    /\ UNCHANGED <<this, now, orig, revoked, getPem, direct>>

\* the catch handler runs, .catch(callback) (lines 108, 195): with the error
\* the operation rejected with, or with what the callback threw in the then
\* handler
callbackCatch(c) ==
    /\ \/ calls[c].pc = "settled" /\ calls[c].res.kind = "err"
       \/ calls[c].pc = "thrown"
    /\ calls' = [calls EXCEPT ![c] =
            [@ EXCEPT !.cb = Append(@, Invocation(
                                 Some(IF calls[c].pc = "thrown"
                                      THEN ThrownError
                                      ELSE calls[c].res.error), Null)),
                      !.pc = "done"]]
    /\ UNCHANGED <<this, now, orig, revoked, getPem, direct>>

\* ---------------------------------------------------------- specification
\* the options a manager is constructed with
Options ==
    { \* a raw key, an issuer, scopes, a subject and extra claims, two of
      \* which bear the names of computed claims
      [NoOptions EXCEPT !.key = Some("PK1"), !.email = Some("e0"),
                        !.sub = Some("u0"),
                        !.scope = ScopeArray(<<"a", "b">>),
                        !.additionalClaims =
                            Some([foo |-> "bar", iss |-> "other", exp |-> 7])],
      \* a raw key and an empty issuer
      [NoOptions EXCEPT !.key = Some("PK1"), !.iss = Some(""),
                        !.scope = ScopeString("a")],
      \* only a JSON key file
      [NoOptions EXCEPT !.keyFile = Some("key.json")],
      \* a JSON key file and a configured issuer
      [NoOptions EXCEPT !.keyFile = Some("key.json"), !.iss = Some("e0")],
      \* only a PEM key file: no issuer can be resolved
      [NoOptions EXCEPT !.keyFile = Some("key.pem")],
      \* a PKCS#12 key file and a configured issuer
      [NoOptions EXCEPT !.keyFile = Some("key.p12"), !.email = Some("e0")],
      \* a key file of an unknown type
      [NoOptions EXCEPT !.keyFile = Some("key.xyz"), !.email = Some("e0")],
      \* new GoogleToken(): nothing configured
      NoOptions }

Init ==
    /\ orig \in Options
    /\ this = configure(Fields, orig)
    /\ now = 0
    /\ calls = [c \in Calls |-> IdleCall]
    /\ revoked = FALSE
    /\ getPem = FALSE
    /\ direct = "idle"

Next ==
    \/ Tick
    \/ \E c \in Calls : getTokenAsync(c)
    \/ \E c \in Calls : importReturn(c)
    \/ \E c \in Calls : importCatch(c)
    \/ \E keyFile \in KeyFiles : getCredentialsDirect(keyFile)
    \/ getCredentialsImportReturn
    \/ getCredentialsImportCatch
    \/ \E c \in Calls, file \in filesOf(this.keyFile) :
            getCredentialsReturn(c, file)
    \/ \E c \in Calls, data \in TokenData : postThen(c, data)
    \/ \E c \in Calls, e \in PostErrors : postCatch(c, e)
    \/ \E c \in Calls : revokeTokenAsync(c)
    \/ \E c \in Calls : revokeThen(c)
    \/ \E c \in Calls, e \in RevokeErrors : revokeCatch(c, e)

Spec == Init /\ [][Next]_vars

\* the same manager with callers that pass a callback; none of its key files
\* is a *.p12, so no call is ever at "import"
OptionsCallback ==
    {o \in Options : o.sub = Null /\ o.iss = Null /\ o.email = Null
                        /\ o.keyFile \in {Null, Some("key.json")}}

InitCallback ==
    /\ orig \in OptionsCallback
    /\ this = configure(Fields, orig)
    /\ now = 0
    /\ calls = [c \in Calls |-> IdleCall]
    /\ revoked = FALSE
    /\ getPem = FALSE
    /\ direct = "idle"

NextCallback ==
    \/ Tick
    \/ \E c \in Calls, file \in filesOf(this.keyFile) :
            getCredentialsReturn(c, file)
    \/ \E c \in Calls, data \in TokenData : postThen(c, data)
    \/ \E c \in Calls, e \in PostErrors : postCatch(c, e)
    \/ \E c \in Calls : revokeThen(c)
    \/ \E c \in Calls, e \in RevokeErrors : revokeCatch(c, e)
    \/ \E c \in Calls : getTokenCallback(c)
    \/ \E c \in Calls : revokeTokenCallback(c)
    \/ \E c \in Calls, throws \in BOOLEAN : callbackThen(c, throws)
    \/ \E c \in Calls : callbackCatch(c)

SpecCallback == InitCallback /\ [][NextCallback]_vars

\* ------------------------------------------------------- steps and states
\* the token held came from an exchange whose response had no expires_in
NeverExpiringHeld ==
    /\ Truthy(this.token)
    /\ this.expiresAt = Null
    /\ this.rawToken # Null
    /\ this.rawToken[1].expires_in = Null
    /\ this.rawToken[1].access_token = this.token

\* a token is held and the clock has not reached its expiry
Unexpired ==
    /\ Truthy(this.token)
    /\ this.expiresAt # Null
    /\ now < this.expiresAt[1]

\* call d is a getToken() that completed with a token from its own exchange,
\* and that token is still the one held
FirstCall(d) ==
    /\ calls[d].op = "getToken"
    /\ calls[d].pc = "done"
    /\ calls[d].res.kind = "ok"
    /\ ~calls[d].cached
    /\ calls[d].res.value = this.token

\* the step in which call c's GET to the revoke endpoint is rejected
RevokeRejected(c) ==
    /\ calls[c].pc = "get"
    /\ calls'[c].pc = "done"
    /\ calls'[c].res.kind = "err"

\* the step in which call c's GET to the revoke endpoint succeeds
RevokeResolved(c) ==
    /\ calls[c].pc = "get"
    /\ calls'[c].pc = "done"
    /\ calls'[c].res.kind = "ok"

\* the manager was constructed with a key file and no raw key
KeyFileOnly == ~Truthy(orig.key) /\ Truthy(orig.keyFile)

\* ------------------------------------------------------------------ claims

\* C1 (as stated): while the token of an exchange without expires_in is held,
\* hasExpired() is false.
C1_NeverExpiringIsValid == NeverExpiringHeld => ~hasExpired(this, now)

\* C1 (amended): while the token of an exchange without expires_in is held,
\* hasExpired() is true at every time, and a getToken() called then does not
\* return the cached token: it goes on to a new exchange, with a POST
\* whenever the key held signs.
C1_NeverExpiringIsExpired ==
    [][/\ NeverExpiringHeld' => hasExpired(this', now')
       /\ \A c \in Calls :
            (NeverExpiringHeld /\ getTokenAsync(c)) =>
                /\ ~calls'[c].cached
                /\ calls'[c].pc = "done" => calls'[c].res.kind = "err"
                /\ SignOk(this.key) =>
                      calls'[c].pc = "post" /\ calls'[c].nPost = 1]_vars

C1_Witness ==
    /\ NeverExpiringHeld
    /\ \E c, d \in Calls :
          /\ FirstCall(d)
          /\ calls[c].op = "getToken"
          /\ calls[c].pc = "post"

\* C2: a getToken() called while the token held has not expired settles at
\* once with that token, with no file read and no network call and no change
\* of the manager; with the getToken() that fetched the token, that is one
\* POST in total.
C2_SecondCallIsCached ==
    [][\A c \in Calls :
          (Unexpired /\ getTokenAsync(c)) =>
             /\ this' = this
             /\ calls'[c].pc = "done"
             /\ calls'[c].res = Resolve(this.token)
             /\ calls'[c].nPost = 0
             /\ calls'[c].nRead = 0
             /\ calls'[c].nGet = 0
             /\ \A d \in Calls \ {c} :
                   FirstCall(d) =>
                      /\ calls'[c].res.value = calls[d].res.value
                      /\ calls[d].nPost + calls'[c].nPost = 1]_vars

C2_Witness ==
    /\ Unexpired
    /\ \E c, d \in Calls :
          /\ c # d
          /\ FirstCall(d)
          /\ calls[d].nPost = 1
          /\ calls[c].op = "getToken"
          /\ calls[c].pc = "done"
          /\ calls[c].cached
          /\ calls[c].res = Resolve(this.token)

\* C3 (as stated): after a failed exchange token and expiresAt are both none
\* and hasExpired() is true.
C3_FailedExchangeClearsAll ==
    [][\A c \in Calls, e \in PostErrors :
          postCatch(c, e) =>
             /\ this'.token = Null
             /\ this'.expiresAt = Null
             /\ hasExpired(this', now')]_vars

\* C4 (as stated): the getToken() that follows a successful revoke does not
\* return a cached token, a token it returns comes from a POST of its own, and
\* on a manager constructed with only a key file it reads the key file again
\* before that POST.
C4_RevokeThenReResolve ==
    \A c \in Calls :
       (calls[c].op = "getToken" /\ calls[c].afterRevoke) =>
          /\ ~calls[c].cached
          /\ calls[c].res.kind = "ok" => calls[c].nPost = 1
          /\ (KeyFileOnly /\ calls[c].nPost = 1) => calls[c].nRead = 1

\* C4 (amended): a successful revoke clears the token and keeps the key the
\* manager holds; the getToken() that follows does not return a cached token,
\* a token it returns comes from a POST of its own, and it reads the key file
\* only if the manager holds no key then: with a key held (also one adopted
\* from the key file before the revoke) it goes to the exchange with no read.
C4_RevokeThenFreshExchange ==
    [][\A c \in Calls :
          /\ RevokeResolved(c) =>
                /\ this'.token = Null
                /\ this'.key = this.key
                /\ hasExpired(this', now')
          /\ (revoked /\ getTokenAsync(c)) =>
                /\ ~calls'[c].cached
                /\ Truthy(this.key) => calls'[c].nRead = 0
                /\ SignOk(this.key) =>
                      calls'[c].pc = "post" /\ calls'[c].nPost = 1
                /\ (~Truthy(this.key) /\ Truthy(this.keyFile)) =>
                      /\ calls'[c].pc \in {"import", "getCredentials"}
                      /\ calls'[c].nPost = 0
          /\ (calls'[c].op = "getToken" /\ calls'[c].afterRevoke
                /\ calls'[c].res.kind = "ok") => calls'[c].nPost = 1]_vars

C4_Witness ==
    /\ KeyFileOnly
    /\ \E c \in Calls :
          /\ calls[c].op = "getToken"
          /\ calls[c].afterRevoke
          /\ calls[c].pc = "done"
          /\ calls[c].res.kind = "ok"
          /\ calls[c].nPost = 1
          /\ calls[c].nRead = 0

\* C5 (as stated): a successful revoke leaves no token state and the
\* configuration given at construction (an issuer given as the empty string
\* counting as none).
C5_RevokeRestoresConstruction ==
    [][\A c \in Calls :
          RevokeResolved(c) =>
             LET made == configure(Fields, orig) IN
             /\ this'.token = Null
             /\ this'.expiresAt = Null
             /\ this'.rawToken = Null
             /\ this'.key = made.key
             /\ this'.keyFile = made.keyFile
             /\ this'.sub = made.sub
             /\ this'.scope = made.scope
             /\ this'.additionalClaims = made.additionalClaims
             /\ this'.iss = (IF Truthy(made.iss) THEN made.iss ELSE Null)]_vars

\* C5 (amended): a successful revoke clears token, expiresAt and rawToken and
\* applies the configuration the manager holds at that moment: key, keyFile,
\* sub, scope and additionalClaims are unchanged, and so is iss unless it is
\* the empty string, which becomes none.  A key and issuer adopted from a key
\* file are kept.
C5_RevokeKeepsCurrentConfig ==
    [][\A c \in Calls :
          RevokeResolved(c) =>
             /\ this'.token = Null
             /\ this'.expiresAt = Null
             /\ this'.rawToken = Null
             /\ this'.key = this.key
             /\ this'.keyFile = this.keyFile
             /\ this'.sub = this.sub
             /\ this'.scope = this.scope
             /\ this'.additionalClaims = this.additionalClaims
             /\ this'.iss = (IF Truthy(this.iss) THEN this.iss ELSE Null)]_vars

C5_Witness ==
    /\ revoked
    /\ KeyFileOnly
    /\ this.token = Null /\ this.expiresAt = Null /\ this.rawToken = Null
    /\ Truthy(this.key)
    /\ this.iss = Some("e1")
    /\ \E c \in Calls :
          calls[c].op = "revokeToken" /\ calls[c].res.kind = "ok"

\* C6: when the GET of a revokeToken() is rejected, the call rejects with that
\* error and the step changes no field of the manager; nor did the call's
\* first step.
C6_FailedRevokeChangesNothing ==
    [][\A c \in Calls :
          /\ RevokeRejected(c) =>
                /\ this' = this
                /\ calls'[c].res.error.axios
                /\ calls'[c].nGet = 1
          /\ revokeTokenAsync(c) => this' = this]_vars

C6_Witness ==
    \E c \in Calls :
       /\ calls[c].op = "revokeToken"
       /\ calls[c].pc = "done"
       /\ calls[c].res.kind = "err"
       /\ calls[c].res.error.axios
       /\ Truthy(this.token)
       /\ this.expiresAt # Null

\* C7: revokeToken() on a manager that holds no token rejects with 'No token
\* to revoke.', issues no network call and changes nothing.
C7_RevokeWithoutToken ==
    [][\A c \in Calls :
          (~Truthy(this.token) /\ revokeTokenAsync(c)) =>
             /\ this' = this
             /\ calls'[c].pc = "done"
             /\ calls'[c].res = Reject(NoTokenError)
             /\ calls'[c].nGet = 0
             /\ calls'[c].nPost = 0
             /\ calls'[c].nRead = 0]_vars

C7_Witness ==
    \E c, d \in Calls :
       /\ calls[c].op = "revokeToken"
       /\ calls[c].res = Reject(NoTokenError)
       /\ calls[d].op = "revokeToken"
       /\ calls[d].res.kind = "ok"
       /\ this.token = Null

\* C8: getToken() with no valid token and neither key nor keyFile rejects with
\* 'No key or keyFile set.', with no file read and no network call, and
\* changes nothing.
C8_NoKeyMaterial ==
    [][\A c \in Calls :
          (/\ ~Unexpired
           /\ ~Truthy(this.key)
           /\ ~Truthy(this.keyFile)
           /\ getTokenAsync(c)) =>
             /\ this' = this
             /\ calls'[c].pc = "done"
             /\ calls'[c].res = Reject(NoKeyError)
             /\ calls'[c].nRead = 0
             /\ calls'[c].nPost = 0
             /\ calls'[c].nGet = 0]_vars

C8_Witness ==
    /\ orig = NoOptions
    /\ this = configure(Fields, NoOptions)
    /\ \E c \in Calls :
          /\ calls[c].op = "getToken"
          /\ calls[c].res = Reject(NoKeyError)

\* C9: when getCredentials resolves, its private key becomes the key and its
\* client email, if it gave one, the issuer (else the issuer stays); with no
\* email and no issuer the call rejects with MISSING_CREDENTIALS 'email is
\* required.' and no POST is issued.
C9_CredentialsAdopted ==
    [][\A c \in Calls, file \in FileContents :
          (/\ getCredentialsReturn(c, file)
           /\ getCredentials(this.keyFile[1], file).ok) =>
             LET creds == getCredentials(this.keyFile[1], file) IN
             /\ this'.key = creds.privateKey
             /\ this'.iss = (IF Truthy(creds.clientEmail)
                             THEN creds.clientEmail ELSE this.iss)
             /\ (~Truthy(creds.clientEmail) /\ ~Truthy(this.iss)) =>
                   /\ calls'[c].pc = "done"
                   /\ calls'[c].res = Reject(EmailRequiredError)
                   /\ calls'[c].nPost = 0]_vars

C9_Witness ==
    /\ this.key = Some("PK1")
    /\ this.iss = Null
    /\ \E c \in Calls :
          /\ calls[c].op = "getToken"
          /\ calls[c].res = Reject(EmailRequiredError)
          /\ calls[c].nRead = 1
          /\ calls[c].nPost = 0

\* C10: a successful exchange replaces the token state by its response: token
\* is access_token, rawToken the response, expiresAt (iat + expires_in) * 1000
\* or none without expires_in, whatever was held before.
C10_ExchangeReplacesState ==
    [][\A c \in Calls, data \in TokenData :
          postThen(c, data) =>
             /\ this'.token = data.access_token
             /\ this'.rawToken = Some(data)
             /\ this'.expiresAt =
                   (IF data.expires_in = Null
                    THEN Null
                    ELSE Some((calls[c].iat + data.expires_in[1]) * 1000))
             /\ calls'[c].res = Resolve(data.access_token)]_vars

C10_Witness ==
    /\ this.rawToken = Some([access_token |-> Some("t2"), expires_in |-> Some(1)])
    /\ this.token = Some("t2")
    /\ this.expiresAt = Some(2000)
    /\ \E c \in Calls : calls[c].op = "getToken" /\ calls[c].res = Resolve(Some("t2"))

\* C11 (as stated): hasExpired() is true after construction, false right after
\* a successful exchange with expires_in > 0 while the clock is before
\* (iat + expires_in) * 1000, and true once the clock reaches expiresAt.
C11_ValidAfterAnyExchange ==
    [][\A c \in Calls, data \in TokenData :
          (/\ postThen(c, data)
           /\ data.expires_in # Null
           /\ data.expires_in[1] > 0
           /\ now' < (calls[c].iat + data.expires_in[1]) * 1000) =>
             ~hasExpired(this', now')]_vars

\* C11 (amended): hasExpired() is true after construction; it is false right
\* after a successful exchange whose response has a non-empty access_token and
\* expires_in > 0 while the clock is before (iat + expires_in) * 1000; and it
\* is true whenever the clock has reached the expiresAt of the token held.
C11_HasExpiredLifecycle ==
    /\ hasExpired(this, now)
    /\ [][/\ \A c \in Calls, data \in TokenData :
               (/\ postThen(c, data)
                /\ Truthy(data.access_token)
                /\ data.expires_in # Null
                /\ data.expires_in[1] > 0
                /\ now' < (calls[c].iat + data.expires_in[1]) * 1000) =>
                  ~hasExpired(this', now')
          /\ (/\ Truthy(this'.token)
              /\ this'.expiresAt # Null
              /\ now' >= this'.expiresAt[1]) => hasExpired(this', now')
          /\ this' = configure(Fields, orig) => hasExpired(this', now')]_vars

C11_Witness ==
    /\ this.token = Some("t1")
    /\ this.expiresAt = Some(1000)
    /\ now = 1000
    /\ hasExpired(this, now)
    /\ \E c \in Calls : calls[c].op = "getToken" /\ calls[c].res = Resolve(Some("t1"))

\* C12 (as stated): in every state, token none implies expiresAt none, and a
\* token held with no expiresAt is the token of a response without expires_in.
\* A successful response that itself carries expires_in and no access_token is
\* left aside here: the state it stores is not counted against the claim.
C12_TokenAndExpiryTogether ==
    /\ (this.token = Null /\ this.expiresAt # Null) =>
          /\ this.rawToken # Null
          /\ this.rawToken[1].access_token = Null
    /\ (Truthy(this.token) /\ this.expiresAt = Null) => NeverExpiringHeld

\* the step in which the POST of getToken() call c is answered or fails
ExchangeEnds(c) ==
    /\ calls[c].op = "getToken"
    /\ calls[c].pc = "post"
    /\ calls'[c].pc = "done"

\* C13 (as stated): when the second of two overlapping exchanges ends, if one
\* of the two succeeded with an unexpired token then hasExpired() is false and
\* the token held is one returned by a successful exchange of the two.  (Call d
\* has stored its token while call c, which began when hasExpired() was true,
\* was in flight.)
C13_OverlapKeepsValidToken ==
    [][\A c, d \in Calls :
          (/\ c # d
           /\ ExchangeEnds(c)
           /\ FirstCall(d)
           /\ Unexpired) =>
             /\ ~hasExpired(this', now')
             /\ \/ this'.token = calls[d].res.value
                \/ /\ calls'[c].res.kind = "ok"
                   /\ this'.token = calls'[c].res.value]_vars

\* C13 (amended): when the second of two overlapping exchanges ends, the token
\* state is the one that exchange leaves, whatever the first one stored: a
\* failure leaves no token and hasExpired() true, a success leaves its own
\* token, valid exactly if that token is non-empty and its expiry lies ahead.
C13_LastCompletionDecides ==
    [][\A c, d \in Calls :
          (/\ c # d
           /\ ExchangeEnds(c)
           /\ FirstCall(d)
           /\ Unexpired) =>
             /\ calls'[c].res.kind = "err" =>
                   /\ this'.token = Null
                   /\ hasExpired(this', now')
             /\ \A data \in TokenData :
                   postThen(c, data) =>
                      /\ this'.token = data.access_token
                      /\ ~hasExpired(this', now') <=>
                            /\ Truthy(data.access_token)
                            /\ data.expires_in # Null
                            /\ now' < (calls[c].iat + data.expires_in[1]) * 1000]_vars

\* both calls made an exchange; d's succeeded, c's failed afterwards while d's
\* token had not expired, and no token is held
C13_Witness ==
    \E c, d \in Calls :
        /\ c # d
        /\ calls[d].op = "getToken" /\ calls[d].pc = "done"
        /\ ~calls[d].cached /\ calls[d].nPost = 1
        /\ calls[d].res = Resolve(Some("t1"))
        /\ calls[c].op = "getToken" /\ calls[c].pc = "done"
        /\ ~calls[c].cached /\ calls[c].nPost = 1
        /\ calls[c].res.kind = "err"
        /\ this.token = Null
        /\ this.rawToken # Null
        /\ this.rawToken[1].access_token = Some("t1")
        /\ this.expiresAt # Null
        /\ now < this.expiresAt[1]

\* C14: a failed exchange rejects with a new error whose message is the body's
\* error field, followed by ": " and error_description when there is one
\* ("invalid_grant: bad"), if the failure response has an error field, and
\* with the transport error itself otherwise.
C14_ExchangeErrorMessage ==
    [][\A c \in Calls, e \in PostErrors :
          postCatch(c, e) =>
             /\ calls'[c].pc = "done"
             /\ calls'[c].res.kind = "err"
             /\ IF e.response /\ Truthy(e.error)
                THEN /\ ~calls'[c].res.error.axios
                     /\ calls'[c].res.error.message =
                           IF Truthy(e.error_description)
                           THEN e.error[1] \o ": " \o e.error_description[1]
                           ELSE e.error[1]
                     /\ (e.error = Some("invalid_grant")
                            /\ e.error_description = Some("bad")) =>
                           calls'[c].res.error.message = "invalid_grant: bad"
                ELSE calls'[c].res.error = exchangeTransportError(e)]_vars

C14_Witness ==
    \E c \in Calls :
        /\ calls[c].op = "getToken"
        /\ calls[c].pc = "done"
        /\ calls[c].res.kind = "err"
        /\ calls[c].res.error.message = "invalid_grant: bad"

\* C16: nothing is retried.  One getToken() issues at most one POST and at most
\* one key file read and no GET, one revokeToken() at most one GET and nothing
\* else, and every failure of a read, a POST or a GET ends the invocation by
\* rejecting with that failure's error.
C16_NoRetries ==
    [][/\ \A c \in Calls :
            /\ calls'[c].nPost <= 1
            /\ calls'[c].nRead <= 1
            /\ calls'[c].nGet <= 1
            /\ calls'[c].op = "getToken" => calls'[c].nGet = 0
            /\ calls'[c].op = "revokeToken" =>
                  calls'[c].nPost = 0 /\ calls'[c].nRead = 0
       /\ \A c \in Calls, e \in PostErrors :
            postCatch(c, e) =>
               /\ calls'[c].pc = "done"
               /\ calls'[c].res = Reject(exchangeError(e))
               /\ calls'[c].nPost = 1
       /\ \A c \in Calls, file \in FileContents :
            (/\ getCredentialsReturn(c, file)
             /\ ~getCredentials(this.keyFile[1], file).ok) =>
               /\ calls'[c].pc = "done"
               /\ calls'[c].res =
                     Reject(getCredentials(this.keyFile[1], file).error)
               /\ calls'[c].nPost = 0
       /\ \A c \in Calls :
            importCatch(c) =>
               /\ calls'[c].pc = "done"
               /\ calls'[c].res = Reject(ImportError)
               /\ calls'[c].nRead = 0
               /\ calls'[c].nPost = 0
       /\ \A c \in Calls, e \in RevokeErrors :
            revokeCatch(c, e) =>
               /\ calls'[c].pc = "done"
               /\ calls'[c].res.kind = "err"
               /\ calls'[c].nGet = 1]_vars

\* a getToken() that read the key file once, posted once and failed, and a
\* revokeToken() that failed after its one GET
C16_Witness ==
    \E c, d \in Calls :
        /\ calls[c].op = "getToken" /\ calls[c].pc = "done"
        /\ calls[c].res.kind = "err" /\ calls[c].res.error.axios
        /\ calls[c].nRead = 1 /\ calls[c].nPost = 1
        /\ calls[d].op = "revokeToken" /\ calls[d].pc = "done"
        /\ calls[d].res.kind = "err" /\ calls[d].nGet = 1

\* C18 (as stated): a getToken() that fails before any exchange, for want of
\* key material, on a credential resolution error or for a missing email,
\* leaves every field of the manager as it was.
C18_EarlyFailureChangesNothing ==
    [][\A c \in Calls :
          (/\ calls'[c] # calls[c]
           /\ calls'[c].op = "getToken"
           /\ calls[c].pc # "post"
           /\ calls'[c].pc = "done"
           /\ calls'[c].nPost = 0
           /\ calls'[c].res.kind = "err"
           /\ calls'[c].res.error \in
                 {NoKeyError, EmailRequiredError, MissingCredentialsError,
                  UnknownCertificateTypeError, ReadFileError, JsonParseError,
                  ImportError}) =>
             this' = this]_vars

\* C20 (as stated): a revoke that succeeds while the manager holds a token
\* other than the one the revoke sent leaves that token in place.
C20_RevokeClearsOnlyItsToken ==
    [][\A c \in Calls :
          (RevokeResolved(c) /\ this.token # calls[c].sent) =>
             this'.token = this.token]_vars

\* C20 (amended): a revoke that succeeds while the manager holds a token other
\* than the one the revoke sent, stored by an exchange that ended while the
\* revoke was in flight, discards that token: no token, raw response or expiry
\* is held afterwards and hasExpired() is true.
C20_RevokeClearsTokenHeld ==
    [][\A c \in Calls :
          (/\ RevokeResolved(c)
           /\ Truthy(this.token)
           /\ this.token # calls[c].sent) =>
             /\ this'.token = Null
             /\ this'.rawToken = Null
             /\ this'.expiresAt = Null
             /\ hasExpired(this', now')]_vars

\* a revoke has succeeded and cleared a token it had not sent, which the
\* other call had obtained
C20_Witness ==
    \E c, d \in Calls :
        /\ calls[c].op = "revokeToken"
        /\ calls[c].res.kind = "ok"
        /\ calls[c].lost
        /\ calls[d].op = "getToken"
        /\ calls[d].res.kind = "ok"
        /\ Truthy(calls[d].res.value)
        /\ this.token = Null

\* the step in which call c builds its JWT and issues the POST
RequestIssued(c) ==
    /\ calls[c].pc # "post"
    /\ calls'[c].pc = "post"

\* C17: in the JWT payload of every exchange, each key of additionalClaims
\* carries the additionalClaims value, also when it is one of iss, scope, aud,
\* exp, iat and sub; each of those six not among the additionalClaims keys
\* carries its computed value: the fields iss, scope and sub, aud the token
\* URL, iat the time in whole seconds and exp = iat + 3600.
C17_AdditionalClaimsOverride ==
    [][\A c \in Calls :
          RequestIssued(c) =>
             LET p == calls'[c].payload
                 extra == IF this'.additionalClaims = Null
                          THEN {}
                          ELSE DOMAIN this'.additionalClaims[1]
                 secs == now' \div 1000
             IN  /\ DOMAIN p = {"iss", "scope", "aud", "exp", "iat", "sub"}
                                  \cup extra
                 /\ \A k \in extra : p[k] = Some(this'.additionalClaims[1][k])
                 /\ "iss" \notin extra => p["iss"] = this'.iss
                 /\ "scope" \notin extra => p["scope"] = this'.scope
                 /\ "sub" \notin extra => p["sub"] = this'.sub
                 /\ "aud" \notin extra => p["aud"] = Some(GOOGLE_TOKEN_URL)
                 /\ "iat" \notin extra => p["iat"] = Some(secs)
                 /\ "exp" \notin extra => p["exp"] = Some(secs + 3600)]_vars

\* a request is in flight whose payload has the issuer and the expiry of
\* additionalClaims, an extra claim, and the computed audience and time
C17_Witness ==
    \E c \in Calls :
        /\ calls[c].pc = "post"
        /\ "foo" \in DOMAIN calls[c].payload
        /\ calls[c].payload["foo"] = Some("bar")
        /\ calls[c].payload["iss"] = Some("other")
        /\ this.iss = Some("e0")
        /\ calls[c].payload["exp"] = Some(7)
        /\ calls[c].payload["iat"] = Some(1)
        /\ calls[c].payload["aud"] = Some(GOOGLE_TOKEN_URL)

\* C15: a call made with a callback runs the same operation as one made
\* without (the same actions, up to the settling of its promise), and the
\* handler that runs once the promise has settled hands the callback the
\* promise's outcome: callback(null, token) for a getToken() resolved with
\* token, callback() for a resolved revokeToken(), callback(err) for a promise
\* rejected with err.  The handler changes no field of the manager and issues
\* no I/O, and it is the end of the call unless the callback throws.
C15_CallbackDeliversPromiseOutcome ==
    [][\A c \in Calls :
          (calls[c].pc = "settled" /\ calls'[c] # calls[c]) =>
             /\ calls[c].style = "callback"
             /\ calls[c].cb = <<>>
             /\ calls'[c].cb =
                   <<IF calls[c].res.kind = "ok"
                     THEN Invocation(Null, calls[c].res.value)
                     ELSE Invocation(Some(calls[c].res.error), Null)>>
             /\ calls'[c].res = calls[c].res
             /\ calls'[c].nPost = calls[c].nPost
             /\ calls'[c].nRead = calls[c].nRead
             /\ calls'[c].nGet = calls[c].nGet
             /\ this' = this
             /\ calls'[c].pc \in {"done", "thrown"}
             /\ calls'[c].pc = "thrown" => calls[c].res.kind = "ok"]_vars

\* a getToken(callback) was handed its token and a revokeToken(callback) its
\* error
C15_Witness ==
    \E c, d \in Calls :
        /\ calls[c].op = "getToken" /\ calls[c].style = "callback"
        /\ calls[c].pc = "done"
        /\ calls[c].res = Resolve(Some("t1"))
        /\ calls[c].nPost = 1
        /\ calls[c].cb = <<Invocation(Null, Some("t1"))>>
        /\ calls[d].op = "revokeToken" /\ calls[d].style = "callback"
        /\ calls[d].pc = "done"
        /\ calls[d].res.kind = "err"
        /\ calls[d].cb = <<Invocation(Some(calls[d].res.error), Null)>>

\* C19 (as stated): a call made with a callback invokes the callback exactly
\* once, whether the operation succeeds or fails and whether or not the
\* callback throws: never more than once, and once when the call has ended.
C19_CallbackExactlyOnce ==
    \A c \in Calls :
        /\ Len(calls[c].cb) <= 1
        /\ (calls[c].style = "callback" /\ calls[c].pc = "done") =>
              Len(calls[c].cb) = 1

====
